---- MODULE Spec2Model ----
(***************************************************************************)
(* Model of the cgx_scheduler timing and dispatch engine                   *)
(* (src/scheduler.hpp, src/inner.hpp): task_t readiness and run,           *)
(* thread<N> lanes with their round-robin cursor and name-addressed        *)
(* control calls, the scheduler_t lane registry and stage_t.               *)
(*                                                                         *)
(* In Spec, SpecLane, SpecNames and SpecSched a callback is one atomic     *)
(* step that returns keep (TRUE) or drop (FALSE).  In SpecCall a callback  *)
(* takes time: run() is split at the call of the callback, the clock moves *)
(* and run() is called again before the callback returns.  SpecConc puts   *)
(* a lock on a lane and splits run() at its lock() and unlock() calls,     *)
(* with a second context making control calls; of the stopwatches only    *)
(* the lane's m_watch is state, and only there.  SpecStage is a stage_t.   *)
(* SpecReg addresses the registry by index, and SpecStat is a              *)
(* min_max_mean_t whose sample type is scaled down to Bits bits.           *)
(* Ticks stay far below 2^63, so the uint64/int64 casts of                 *)
(* timer_t::elapsed and the sum of make_deadline are exact and plain       *)
(* integers are used.                                                      *)
(***************************************************************************)
EXTENDS Integers, Sequences, FiniteSets, TLC

\* ---- bounds of the model -------------------------------------------------
N == 2              \* capacity of the lane that is a thread<N>
MaxTick == 6        \* the clock runs from 0 to MaxTick
MaxDepth == 2       \* run() calls that can be in progress at once, nested
RingN == 2          \* entries of the ring of a min_max_mean_t (32 in the code)
Bits == 3           \* width of its sample type T (64 in the code)
MaxSamples == 3     \* samples added between two resets

\* ---- program constants ---------------------------------------------------
NameLen == 8        \* characters copied by the constructor and compared
RegCap == 8         \* size of scheduler_t::m_threads

\* the host owns two lanes: Solo is a thread<1>, Multi is a thread<N>
Solo == "solo"
Multi == "multi"
Lanes == {Solo, Multi}
Capacity(l) == IF l = Solo THEN 1 ELSE N
NoSlot == 0 - 1
NoLane == "nullptr" \* an empty entry of m_threads

\* periods the host uses: phase-aligned, always ready, relative
Periods == {0 - 3, 0 - 2, 0, 2, 3}

\* C strings as tuples of character codes; the terminating NUL (0) is implicit.
\* "a", "abcdefghX", "abcdefghY"
NameA == <<1>>
NameX == <<1, 2, 3, 4, 5, 6, 7, 8, 9>>
NameY == <<1, 2, 3, 4, 5, 6, 7, 8, 10>>
Names == {NameA, NameX, NameY}

VARIABLES now, lanes, m_threads, polls, last, act, cx, stage, stat

vars == <<now, lanes, m_threads, polls, last, act, cx, stage, stat>>

\* ---- strings -------------------------------------------------------------
\* s[i] of a NUL-terminated string, 1-based; 0 at and after the terminator
CharAt(s, i) == IF i <= Len(s) THEN s[i] ELSE 0

strlen(s) == Len(s)

RECURSIVE strncmp_from(_, _, _, _)
strncmp_from(a, b, i, n) ==
    IF i > n THEN TRUE
    ELSE IF CharAt(a, i) # CharAt(b, i) THEN FALSE
    ELSE IF CharAt(a, i) = 0 THEN TRUE
    ELSE strncmp_from(a, b, i + 1, n)

\* a comparison that runs on to the terminator (strcmp in place of strncmp)
strncmp_eq_full(a, b, n) == strncmp_from(a, b, 1, n + 1)

\* strncmp(a, b, n) == 0
strncmp_eq(a, b, n) == strncmp_from(a, b, 1, n)

\* m_name after the constructor: 9 zero bytes, then memcpy of min(len, 8) chars
make_name(name) ==
    LET len == strlen(name)
        cnt == IF len > NameLen THEN NameLen ELSE len
    IN  [i \in 1..(NameLen + 1) |-> IF i <= cnt THEN name[i] ELSE 0]

\* ---- timer_t --------------------------------------------------------------
elapsed(nw, start) == nw - start

\* ---- task_t ---------------------------------------------------------------
\* a default-constructed task_t (an empty slot); m_period_tick has no
\* initializer and is never read while the status is invalid.  ran and
\* checked are history: the task has been run, and m_ticks_left holds a value
\* that a readiness check of this very task computed
default_task ==
    [name |-> [i \in 1..(NameLen + 1) |-> 0], period |-> 0, last_run |-> 0,
     status |-> "invalid", ticks_left |-> 0, prev |-> 0, ran |-> FALSE,
     checked |-> FALSE]

\* a constructor whose baseline of last_run is tick 1
task_t_late(name, period) ==
    [name |-> make_name(name), period |-> period, last_run |-> 1,
     status |-> "running", ticks_left |-> 0, prev |-> 0, ran |-> FALSE,
     checked |-> FALSE]

\* task_t(name, period, callback)
task_t(name, period) ==
    [name |-> make_name(name), period |-> period, last_run |-> 0,
     status |-> "running", ticks_left |-> 0, prev |-> 0, ran |-> FALSE,
     checked |-> FALSE]

\* operator=: m_ticks_left and m_prev are not assigned
task_assign(t, other) ==
    [t EXCEPT !.name = other.name, !.period = other.period,
              !.last_run = other.last_run, !.status = other.status,
              !.ran = other.ran, !.checked = other.checked]

\* operator bool
task_bool(t) == t.status # "invalid"

\* _ticks_left() that samples the phase only when it detects a boundary
ticks_left_unsampled(t, nw) ==
    IF t.period < 0 THEN
        IF t.status = "delayed" THEN
            [val |-> 0 - elapsed(nw, t.last_run), prev |-> t.prev]
        ELSE
            LET current == nw % (0 - t.period)
            IN  IF current < t.prev THEN
                    [val |-> 0 - elapsed(nw, t.last_run), prev |-> current]
                ELSE
                    [val |-> (0 - t.period) - current, prev |-> t.prev]
    ELSE
        [val |-> t.period - elapsed(nw, t.last_run), prev |-> t.prev]

\* _ticks_left(): the value and the new m_prev
_ticks_left(t, nw) ==
    IF t.period < 0 THEN
        IF t.status = "delayed" THEN
            [val |-> 0 - elapsed(nw, t.last_run), prev |-> t.prev]
        ELSE
            LET current == nw % (0 - t.period)
            IN  IF current < t.prev THEN
                    [val |-> 0 - elapsed(nw, t.last_run), prev |-> current]
                ELSE
                    [val |-> (0 - t.period) - current, prev |-> current]
    ELSE
        [val |-> t.period - elapsed(nw, t.last_run), prev |-> t.prev]

\* is_ready() with the deadline tick itself excluded (m_ticks_left < 0)
is_ready_strict(t, nw) ==
    IF t.status = "invalid" THEN [ready |-> FALSE, task |-> t]
    ELSE IF t.status = "stopped" THEN [ready |-> FALSE, task |-> t]
    ELSE LET tl == _ticks_left(t, nw)
             t2 == [t EXCEPT !.ticks_left = tl.val, !.prev = tl.prev,
                             !.checked = TRUE]
         IN  IF tl.val < 0 THEN [ready |-> TRUE, task |-> t2]
             ELSE [ready |-> FALSE, task |-> t2]

\* is_ready() without the early return for a stopped task
is_ready_unstopped(t, nw) ==
    IF t.status = "invalid" THEN [ready |-> FALSE, task |-> t]
    ELSE LET tl == _ticks_left(t, nw)
             t2 == [t EXCEPT !.ticks_left = tl.val, !.prev = tl.prev,
                             !.checked = TRUE]
         IN  IF tl.val <= 0 THEN [ready |-> TRUE, task |-> t2]
             ELSE [ready |-> FALSE, task |-> t2]

\* is_ready(): the result and the task with its mutable members updated
is_ready(t, nw) ==
    IF t.status = "invalid" THEN [ready |-> FALSE, task |-> t]
    ELSE IF t.status = "stopped" THEN [ready |-> FALSE, task |-> t]
    ELSE LET tl == _ticks_left(t, nw)
             t2 == [t EXCEPT !.ticks_left = tl.val, !.prev = tl.prev,
                             !.checked = TRUE]
         IN  IF tl.val <= 0 THEN [ready |-> TRUE, task |-> t2]
             ELSE [ready |-> FALSE, task |-> t2]

\* ticks_left()
ticks_left(t) ==
    IF t.status # "paused" THEN 0
    ELSE IF t.period = 0 THEN 0
    ELSE t.ticks_left

\* status()
status(t) == IF ticks_left(t) < 0 THEN "delayed" ELSE t.status

\* run() that re-arms the task whatever the callback returned
task_run_keep(t, nw, keep) ==
    IF t.status = "invalid" THEN [task |-> t, called |-> FALSE]
    ELSE IF t.status = "stopped" THEN [task |-> t, called |-> FALSE]
    ELSE LET t1 == [t EXCEPT !.status = "running"]
             t2 == IF t1.period >= 0
                   THEN [t1 EXCEPT !.last_run = nw]
                   ELSE [t1 EXCEPT !.last_run = nw - ticks_left(t1)]
             t3 == [t2 EXCEPT !.status = "paused", !.ran = TRUE]
         IN  [task |-> t3, called |-> TRUE]

\* run(): keep is what the callback returns; called tells whether it was invoked
task_run(t, nw, keep) ==
    IF t.status = "invalid" THEN [task |-> t, called |-> FALSE]
    ELSE IF t.status = "stopped" THEN [task |-> t, called |-> FALSE]
    ELSE LET t1 == [t EXCEPT !.status = "running"]
             t2 == IF t1.period >= 0
                   THEN [t1 EXCEPT !.last_run = nw]
                   ELSE [t1 EXCEPT !.last_run = nw - ticks_left(t1)]
             t3 == [t2 EXCEPT !.status = IF keep THEN "paused" ELSE "invalid",
                              !.ran = TRUE]
         IN  [task |-> t3, called |-> TRUE]

\* run() up to the call of the callback, leaving last_run as it was
task_run_enter_stale(t, nw) ==
    IF t.status = "invalid" THEN [task |-> t, called |-> FALSE]
    ELSE IF t.status = "stopped" THEN [task |-> t, called |-> FALSE]
    ELSE [task |-> [t EXCEPT !.status = "running", !.ran = TRUE],
          called |-> TRUE]

\* run() up to the call of the callback: the task while its callback executes
task_run_enter(t, nw) ==
    IF t.status = "invalid" THEN [task |-> t, called |-> FALSE]
    ELSE IF t.status = "stopped" THEN [task |-> t, called |-> FALSE]
    ELSE LET t1 == [t EXCEPT !.status = "running"]
             t2 == IF t1.period >= 0
                   THEN [t1 EXCEPT !.last_run = nw]
                   ELSE [t1 EXCEPT !.last_run = nw - ticks_left(t1)]
         IN  [task |-> [t2 EXCEPT !.ran = TRUE], called |-> TRUE]

\* run() from the return of the callback: keep is what the callback returned
task_run_leave(t, keep) ==
    [t EXCEPT !.status = IF keep THEN "paused" ELSE "invalid"]

invalidate(t) == [t EXCEPT !.status = "invalid"]
task_stop(t) == [t EXCEPT !.status = "stopped"]
task_start(t) == [t EXCEPT !.status = "paused"]

\* ---- min_max_mean_t<T, N> ----------------------------------------------------
\* T is an unsigned type of Bits bits: numeric_limits<T>::max() and lowest()
Wrap == 2 ^ Bits
T_max == Wrap - 1
T_lowest == 0

Min(a, b) == IF a <= b THEN a ELSE b
Max(a, b) == IF a >= b THEN a ELSE b

\* the loop `for (v : m_values) m_mean += v`, from entry k on, in T
RECURSIVE accumulate(_, _, _)
accumulate(values, k, sum) ==
    IF k >= Cardinality(DOMAIN values) THEN sum
    ELSE accumulate(values, k + 1, (sum + values[k]) % Wrap)

\* the state after construction and after reset()
new_stat ==
    [m_min |-> T_max, m_max |-> T_lowest, m_mean |-> 0,
     m_is_mean_valid |-> FALSE, m_index |-> 0,
     m_values |-> [k \in 0..(RingN - 1) |-> 0]]

\* add(value)
stat_add(st, value) ==
    LET n      == Cardinality(DOMAIN st.m_values)
        filled == IF ~st.m_is_mean_valid THEN [k \in DOMAIN st.m_values |-> value]
                  ELSE st.m_values
        values == [filled EXCEPT ![st.m_index] = value]
    IN  [m_min |-> Min(st.m_min, value), m_max |-> Max(st.m_max, value),
         m_mean |-> accumulate(values, 0, 0) \div n,
         m_is_mean_valid |-> TRUE, m_index |-> (st.m_index + 1) % n,
         m_values |-> values]

\* reset()
stat_reset(st) == new_stat

\* ---- stage_t<N> -------------------------------------------------------------
Directions == {"next", "stay", "reset"}

\* what the array of steps can hold: an empty std::function, a step of the
\* host that returns a direction of its choice, and SCH_SLEEP(ticks)
EmptyStep == [kind |-> "empty", ticks |-> 0]
UserStep == [kind |-> "user", ticks |-> 0]
SleepStep(ticks) == [kind |-> "sleep", ticks |-> ticks]

\* timer_t::make_deadline and timer_t::is_expired
make_deadline(nw, delay) == nw + delay

is_expired_strict(nw, deadline) == nw > deadline

is_expired(nw, deadline) == nw >= deadline

\* stage_t(stages)
new_stage(stages) ==
    [m_index |-> 0, m_stages |-> stages, m_is_sleeping |-> FALSE, m_deadline |-> 0]

StageN(st) == Cardinality(DOMAIN st.m_stages)

\* sleep(ticks): the stage afterwards and the direction returned
stage_sleep(st, ticks, nw) ==
    LET a == IF ~st.m_is_sleeping
             THEN [st EXCEPT !.m_deadline = make_deadline(nw, ticks),
                             !.m_is_sleeping = TRUE]
             ELSE st
    IN  IF is_expired(nw, a.m_deadline)
        THEN [stage |-> [a EXCEPT !.m_is_sleeping = FALSE], dir |-> "next"]
        ELSE [stage |-> a, dir |-> "stay"]

\* run() in which reset leaves the index where it is
stage_run_reset_stay(st, nw, dir) ==
    LET i    == IF st.m_stages[st.m_index].kind = "empty" THEN 0 ELSE st.m_index
        step == st.m_stages[i]
    IN  IF step.kind = "empty"
        THEN [stage |-> [st EXCEPT !.m_index = i], called |-> NoSlot,
              dir |-> "none", threw |-> TRUE]
        ELSE LET r == IF step.kind = "sleep" THEN stage_sleep(st, step.ticks, nw)
                      ELSE [stage |-> st, dir |-> dir]
                 j == IF r.dir = "next" THEN (i + 1) % StageN(st) ELSE i
             IN  [stage |-> [r.stage EXCEPT !.m_index = j], called |-> i,
                  dir |-> r.dir, threw |-> FALSE]

\* run(): dir is what a step of the host returns.  The stage afterwards, the
\* step that was called, the direction it returned, and whether the call
\* ended in std::bad_function_call because the step to call was empty
stage_run(st, nw, dir) ==
    LET i    == IF st.m_stages[st.m_index].kind = "empty" THEN 0 ELSE st.m_index
        step == st.m_stages[i]
    IN  IF step.kind = "empty"
        THEN [stage |-> [st EXCEPT !.m_index = i], called |-> NoSlot,
              dir |-> "none", threw |-> TRUE]
        ELSE LET r == IF step.kind = "sleep" THEN stage_sleep(st, step.ticks, nw)
                      ELSE [stage |-> st, dir |-> dir]
                 j == CASE r.dir = "next"  -> (i + 1) % StageN(st)
                        [] r.dir = "stay"  -> i
                        [] r.dir = "reset" -> 0
             IN  [stage |-> [r.stage EXCEPT !.m_index = j], called |-> i,
                  dir |-> r.dir, threw |-> FALSE]

\* ---- thread<N> ------------------------------------------------------------
new_thread(n) == [tasks |-> [s \in 0..(n - 1) |-> default_task], index |-> 0]

\* the template parameter N of a lane, and its slot indices
LaneN(ln) == Cardinality(DOMAIN ln.tasks)
Slots(ln) == DOMAIN ln.tasks

\* size()
size(ln) == Cardinality({s \in Slots(ln) : task_bool(ln.tasks[s])})

\* while (!m_tasks_list[m_index]) m_index = (m_index + 1) % N;
RECURSIVE skip_empty(_, _, _)
skip_empty(tasks, i, n) ==
    IF task_bool(tasks[i]) THEN i ELSE skip_empty(tasks, (i + 1) % n, n)

\* run() that moves the cursor on only when the task under it was executed
thread_run_hold(ln, nw, keep) ==
    IF size(ln) = 0 THEN
        [lane |-> ln, slot |-> NoSlot, ready |-> FALSE, executed |-> <<>>]
    ELSE
        LET n  == LaneN(ln)
            i  == skip_empty(ln.tasks, ln.index, n)
            rd == is_ready(ln.tasks[i], nw)
            rn == IF rd.ready THEN task_run(rd.task, nw, keep)
                  ELSE [task |-> rd.task, called |-> FALSE]
        IN  [lane |-> [tasks |-> [ln.tasks EXCEPT ![i] = rn.task],
                       index |-> IF rd.ready THEN (i + 1) % n ELSE i],
             slot |-> i, ready |-> rd.ready,
             executed |-> IF rn.called THEN <<i>> ELSE <<>>]

\* every ready task from slot i on is executed
RECURSIVE run_each(_, _, _, _)
run_each(acc, i, nw, keep) ==
    IF i >= Cardinality(DOMAIN acc.tasks) THEN acc
    ELSE LET rd == is_ready(acc.tasks[i], nw)
             rn == IF rd.ready THEN task_run(rd.task, nw, keep)
                   ELSE [task |-> rd.task, called |-> FALSE]
         IN  run_each([tasks |-> [acc.tasks EXCEPT ![i] = rn.task],
                       executed |-> IF rn.called THEN Append(acc.executed, i)
                                    ELSE acc.executed],
                      i + 1, nw, keep)

\* run() that polls the slot under the cursor and then executes every ready
\* task of the lane in one call
thread_run_all(ln, nw, keep) ==
    IF size(ln) = 0 THEN
        [lane |-> ln, slot |-> NoSlot, ready |-> FALSE, executed |-> <<>>]
    ELSE
        LET n  == LaneN(ln)
            i  == skip_empty(ln.tasks, ln.index, n)
            rd == is_ready(ln.tasks[i], nw)
            al == run_each([tasks |-> ln.tasks, executed |-> <<>>], 0, nw, keep)
        IN  [lane |-> [tasks |-> al.tasks, index |-> (i + 1) % n],
             slot |-> i, ready |-> rd.ready, executed |-> al.executed]

\* run(): the lane afterwards, the slot whose readiness was evaluated, the
\* result of that evaluation and the slots whose callback was invoked
thread_run(ln, nw, keep) ==
    IF size(ln) = 0 THEN
        [lane |-> ln, slot |-> NoSlot, ready |-> FALSE, executed |-> <<>>]
    ELSE
        LET n  == LaneN(ln)
            i  == skip_empty(ln.tasks, ln.index, n)
            rd == is_ready(ln.tasks[i], nw)
            rn == IF rd.ready THEN task_run(rd.task, nw, keep)
                  ELSE [task |-> rd.task, called |-> FALSE]
        IN  [lane |-> [tasks |-> [ln.tasks EXCEPT ![i] = rn.task],
                       index |-> (i + 1) % n],
             slot |-> i, ready |-> rd.ready,
             executed |-> IF rn.called THEN <<i>> ELSE <<>>]

\* for (auto& t : m_tasks_list) if (!t): the first free slot from i on
RECURSIVE first_free(_, _)
first_free(tasks, i) ==
    IF i >= Cardinality(DOMAIN tasks) THEN NoSlot
    ELSE IF ~task_bool(tasks[i]) THEN i
    ELSE first_free(tasks, i + 1)

\* add(task) that takes slot 0 when no slot is free
thread_add_overwrite(ln, task) ==
    LET f == first_free(ln.tasks, 0)
        i == IF f = NoSlot THEN 0 ELSE f
    IN  [lane |-> [ln EXCEPT !.tasks[i] = task_assign(ln.tasks[i], task)],
         ret |-> TRUE, slot |-> i]

\* add(task)
thread_add(ln, task) ==
    LET i == first_free(ln.tasks, 0)
    IN  IF i = NoSlot THEN [lane |-> ln, ret |-> FALSE, slot |-> NoSlot]
        ELSE [lane |-> [ln EXCEPT !.tasks[i] = task_assign(ln.tasks[i], task)],
              ret |-> TRUE, slot |-> i]

\* task && std::strncmp(task.name().data(), name, 8) == 0
name_match(t, name) == task_bool(t) /\ strncmp_eq(t.name, name, NameLen)

\* for (auto& task : m_tasks_list) if (match): the first match from i on
RECURSIVE first_match(_, _, _)
first_match(tasks, name, i) ==
    IF i >= Cardinality(DOMAIN tasks) THEN NoSlot
    ELSE IF name_match(tasks[i], name) THEN i
    ELSE first_match(tasks, name, i + 1)

\* pkill(name)
thread_pkill(ln, name) ==
    LET i == first_match(ln.tasks, name, 0)
    IN  IF i = NoSlot THEN [lane |-> ln, ret |-> FALSE, slot |-> NoSlot]
        ELSE [lane |-> [ln EXCEPT !.tasks[i] = invalidate(ln.tasks[i])],
              ret |-> TRUE, slot |-> i]

\* start(name)
thread_start(ln, name) ==
    LET i == first_match(ln.tasks, name, 0)
    IN  IF i = NoSlot THEN [lane |-> ln, ret |-> FALSE, slot |-> NoSlot]
        ELSE [lane |-> [ln EXCEPT !.tasks[i] = task_start(ln.tasks[i])],
              ret |-> TRUE, slot |-> i]

\* stop(name)
thread_stop(ln, name) ==
    LET i == first_match(ln.tasks, name, 0)
    IN  IF i = NoSlot THEN [lane |-> ln, ret |-> FALSE, slot |-> NoSlot]
        ELSE [lane |-> [ln EXCEPT !.tasks[i] = task_stop(ln.tasks[i])],
              ret |-> TRUE, slot |-> i]

\* run() up to the call of a callback: as thread_run, but when a callback is
\* called the cursor still rests on its slot
thread_run_enter(ln, nw) ==
    IF size(ln) = 0 THEN
        [lane |-> ln, slot |-> NoSlot, ready |-> FALSE, called |-> FALSE]
    ELSE
        LET n  == LaneN(ln)
            i  == skip_empty(ln.tasks, ln.index, n)
            rd == is_ready(ln.tasks[i], nw)
            rn == IF rd.ready THEN task_run_enter(rd.task, nw)
                  ELSE [task |-> rd.task, called |-> FALSE]
        IN  [lane |-> [tasks |-> [ln.tasks EXCEPT ![i] = rn.task],
                       index |-> IF rn.called THEN i ELSE (i + 1) % n],
             slot |-> i, ready |-> rd.ready, called |-> rn.called]

\* run() from the return of the callback of the task in slot i: the status is
\* written through the reference taken before the call, and the cursor moves
\* on from wherever it is by now
thread_run_leave(ln, i, keep) ==
    [tasks |-> [ln.tasks EXCEPT ![i] = task_run_leave(@, keep)],
     index |-> (ln.index + 1) % LaneN(ln)]

\* ---- history kept for the properties --------------------------------------
Populated(ln) == {s \in Slots(ln) : task_bool(ln.tasks[s])}

NoOp == [op |-> "init", lane |-> NoLane, slot |-> NoSlot, ready |-> FALSE,
         executed |-> <<>>, ret |-> FALSE, keep |-> FALSE, ranBefore |-> FALSE,
         name |-> <<>>, from |-> NoSlot, dir |-> "none", ticks |-> 0,
         deref |-> "none"]

\* the slots polled by the run() calls since the lane's populated set last
\* changed, the newest last, at most N of them
Logged(log, before, after, slot) ==
    IF Populated(before) # Populated(after) THEN <<>>
    ELSE IF slot = NoSlot THEN log
    ELSE LET l2 == Append(log, slot)
         IN  IF Len(l2) > LaneN(after) THEN SubSeq(l2, 2, Len(l2)) ELSE l2

\* ---- state of the other specifications, at rest ------------------------------
NoTick == 0 - 1

\* callbacks in execution, innermost last, and the ticks at which the latest
\* callback was entered and left
NoCalls == [stack |-> <<>>, begun |-> NoTick, done |-> NoTick]

\* a lane with a lock installed, used from two contexts: where the dispatching
\* context stands in run(), who holds the lock, the lane's stopwatch (the tick
\* of its start and the last duration it recorded), and whether lane state
\* has been accessed by a context that did not hold the lock
NoContext == [pc |-> "idle", holder |-> "none", m_start |-> 0,
              m_duration |-> NoTick, raced |-> FALSE, bare |-> FALSE]

\* a min_max_mean_t as constructed, and the samples added to it since then or
\* since its last reset
NoStat == [obj |-> new_stat, samples |-> <<>>]

\* a stage_t<1> without a step
NoStage == new_stage([i \in {0} |-> EmptyStep])

\* ---- actions: the clock and one lane --------------------------------------
Init ==
    /\ now = 0
    /\ lanes = [l \in Lanes |-> new_thread(Capacity(l))]
    /\ m_threads = [i \in 0..(RegCap - 1) |-> NoLane]
    /\ polls = [l \in Lanes |-> <<>>]
    /\ last = NoOp
    /\ act = NoCalls
    /\ cx = NoContext
    /\ stage = NoStage
    /\ stat = NoStat

Tick ==
    /\ now < MaxTick
    /\ now' = now + 1
    /\ last' = [NoOp EXCEPT !.op = "tick"]
    /\ UNCHANGED <<lanes, m_threads, polls, act, cx, stage, stat>>

LaneRun(l) ==
    \E keep \in BOOLEAN :
        LET r == thread_run(lanes[l], now, keep)
        IN  /\ lanes' = [lanes EXCEPT ![l] = r.lane]
            /\ polls' = [polls EXCEPT ![l] = Logged(@, lanes[l], r.lane, r.slot)]
            /\ last' = [NoOp EXCEPT !.op = "run", !.lane = l, !.slot = r.slot,
                                    !.ready = r.ready, !.executed = r.executed,
                                    !.keep = (r.executed # <<>> /\ keep),
                                    !.ranBefore = (r.slot # NoSlot /\
                                        lanes[l].tasks[r.slot].ran)]
            /\ UNCHANGED <<now, m_threads, act, cx, stage, stat>>

LaneAdd(l, name, period) ==
    LET r == thread_add(lanes[l], task_t(name, period))
    IN  /\ lanes' = [lanes EXCEPT ![l] = r.lane]
        /\ polls' = [polls EXCEPT ![l] = Logged(@, lanes[l], r.lane, NoSlot)]
        /\ last' = [NoOp EXCEPT !.op = "add", !.lane = l, !.slot = r.slot,
                                !.ret = r.ret, !.name = name]
        /\ UNCHANGED <<now, m_threads, act, cx, stage, stat>>

LaneControl(l, op, name) ==
    LET r == CASE op = "pkill" -> thread_pkill(lanes[l], name)
               [] op = "start" -> thread_start(lanes[l], name)
               [] op = "stop"  -> thread_stop(lanes[l], name)
    IN  /\ lanes' = [lanes EXCEPT ![l] = r.lane]
        /\ polls' = [polls EXCEPT ![l] = Logged(@, lanes[l], r.lane, NoSlot)]
        /\ last' = [NoOp EXCEPT !.op = op, !.lane = l, !.slot = r.slot,
                                !.ret = r.ret, !.name = name]
        /\ UNCHANGED <<now, m_threads, act, cx, stage, stat>>

LanePkill(l, name) == LaneControl(l, "pkill", name)
LaneStart(l, name) == LaneControl(l, "start", name)
LaneStop(l, name) == LaneControl(l, "stop", name)

\* ---- actions: callbacks that take time ---------------------------------------
\* run() on a lane without a lock, from the main loop or from inside a
\* callback that is executing: it returns at once when no callback is called
CallEnter(l) ==
    LET r == thread_run_enter(lanes[l], now)
    IN  /\ Len(act.stack) < MaxDepth
        /\ lanes' = [lanes EXCEPT ![l] = r.lane]
        /\ act' = IF r.called
                  THEN [act EXCEPT !.stack = Append(@, [lane |-> l, slot |-> r.slot]),
                                   !.begun = now]
                  ELSE act
        /\ last' = [NoOp EXCEPT !.op = "run", !.lane = l, !.slot = r.slot,
                                !.ready = r.ready,
                                !.executed = IF r.called THEN <<r.slot>> ELSE <<>>,
                                !.ranBefore = (r.slot # NoSlot /\
                                    lanes[l].tasks[r.slot].ran)]
        /\ UNCHANGED <<now, m_threads, polls, cx, stage, stat>>

\* the innermost callback returns keep and its run() completes
CallLeave ==
    /\ act.stack # <<>>
    /\ \E keep \in BOOLEAN :
        LET f == act.stack[Len(act.stack)]
        IN  /\ lanes' = [lanes EXCEPT ![f.lane] = thread_run_leave(@, f.slot, keep)]
            /\ act' = [act EXCEPT !.stack = SubSeq(@, 1, Len(@) - 1),
                                  !.done = now]
            /\ last' = [NoOp EXCEPT !.op = "return", !.lane = f.lane,
                                    !.slot = f.slot, !.keep = keep]
    /\ UNCHANGED <<now, m_threads, polls, cx, stage, stat>>

\* ---- actions: a stage_t ---------------------------------------------------------
StageRun ==
    \E dir \in Directions :
        LET r == stage_run(stage, now, dir)
        IN  /\ stage' = r.stage
            /\ last' = [NoOp EXCEPT !.op = "stage_run", !.from = stage.m_index,
                                    !.slot = r.called, !.dir = r.dir,
                                    !.ret = ~r.threw,
                                    !.ticks = IF r.called = NoSlot THEN 0
                                              ELSE stage.m_stages[r.called].ticks]
            /\ UNCHANGED <<now, lanes, m_threads, polls, act, cx, stat>>

\* sleep(ticks) called by a step of the host or by the host itself
StageSleep(ticks) ==
    LET r == stage_sleep(stage, ticks, now)
    IN  /\ stage' = r.stage
        /\ last' = [NoOp EXCEPT !.op = "sleep", !.dir = r.dir, !.ticks = ticks]
        /\ UNCHANGED <<now, lanes, m_threads, polls, act, cx, stat>>

\* ---- actions: two contexts on a lane with a lock ----------------------------------
\* run(), first part: size() in a critical section of its own
RunSize(l) ==
    /\ cx.pc = "idle" /\ cx.holder = "none"
    /\ IF size(lanes[l]) = 0
       THEN /\ last' = [NoOp EXCEPT !.op = "run", !.lane = l]
            /\ UNCHANGED cx
       ELSE /\ last' = [NoOp EXCEPT !.op = "size", !.lane = l]
            /\ cx' = [cx EXCEPT !.pc = "sized"]
    /\ UNCHANGED <<now, lanes, m_threads, polls, act, stage, stat>>

\* run(), second part: lock(), start of the stopwatch, the skip of empty
\* slots, the dispatch and unlock().  On a lane without a task the skip loop
\* does not end and the lock stays held
RunLocked(l) ==
    /\ cx.pc = "sized" /\ cx.holder = "none"
    /\ IF size(lanes[l]) = 0
       THEN /\ cx' = [cx EXCEPT !.pc = "spin", !.holder = "A", !.m_start = now]
            /\ last' = [NoOp EXCEPT !.op = "spin", !.lane = l]
            /\ UNCHANGED <<lanes, polls>>
       ELSE \E keep \in BOOLEAN :
            LET r == thread_run(lanes[l], now, keep)
            IN  /\ lanes' = [lanes EXCEPT ![l] = r.lane]
                /\ polls' = [polls EXCEPT ![l] = Logged(@, lanes[l], r.lane, r.slot)]
                /\ cx' = [cx EXCEPT !.pc = "unlocked", !.m_start = now]
                /\ last' = [NoOp EXCEPT !.op = "run", !.lane = l, !.slot = r.slot,
                                        !.ready = r.ready, !.executed = r.executed,
                                        !.keep = (r.executed # <<>> /\ keep),
                                        !.ranBefore = lanes[l].tasks[r.slot].ran]
    /\ UNCHANGED <<now, m_threads, act, stage, stat>>

\* run(), last part: the destructor of the stopwatch guard records the
\* duration after unlock().  While the other context is inside reset_stats()
\* the two writes race and either may prevail
RunWatchStop ==
    /\ cx.pc = "unlocked"
    /\ \E d \in {elapsed(now, cx.m_start)} \cup
                (IF cx.holder = "B" THEN {NoTick} ELSE {}) :
          cx' = [cx EXCEPT !.pc = "idle", !.m_duration = d,
                           !.raced = (cx.holder = "B"),
                           !.bare = (@ \/ cx.holder # "A")]
    /\ last' = [NoOp EXCEPT !.op = "watch_stop"]
    /\ UNCHANGED <<now, lanes, m_threads, polls, act, stage, stat>>

\* the control calls of the other context, each one critical section
ConcAdd(l, name, period) == cx.holder = "none" /\ LaneAdd(l, name, period)
ConcPkill(l, name) == cx.holder = "none" /\ LanePkill(l, name)
ConcStart(l, name) == cx.holder = "none" /\ LaneStart(l, name)
ConcStop(l, name) == cx.holder = "none" /\ LaneStop(l, name)

\* reset_stats() of the other context: lock() and the loop over the tasks
ResetBegin ==
    /\ cx.holder = "none"
    /\ cx' = [cx EXCEPT !.holder = "B", !.raced = FALSE]
    /\ last' = [NoOp EXCEPT !.op = "reset_stats"]
    /\ UNCHANGED <<now, lanes, m_threads, polls, act, stage, stat>>

\* reset_stats(): m_watch.reset() and unlock()
ResetEnd ==
    /\ cx.holder = "B"
    /\ cx' = [cx EXCEPT !.holder = "none", !.raced = FALSE,
                        !.m_duration = IF cx.raced THEN @ ELSE NoTick]
    /\ last' = [NoOp EXCEPT !.op = "reset_stats", !.ret = TRUE]
    /\ UNCHANGED <<now, lanes, m_threads, polls, act, stage, stat>>

\* ---- actions: a min_max_mean_t ---------------------------------------------------
\* add(value), for at most MaxSamples samples between two resets
StatAdd(value) ==
    /\ Len(stat.samples) < MaxSamples
    /\ stat' = [obj |-> stat_add(stat.obj, value),
                samples |-> Append(stat.samples, value)]
    /\ last' = [NoOp EXCEPT !.op = "stat_add", !.ticks = value]
    /\ UNCHANGED <<now, lanes, m_threads, polls, act, cx, stage>>

StatReset ==
    /\ stat' = [obj |-> stat_reset(stat.obj), samples |-> <<>>]
    /\ last' = [NoOp EXCEPT !.op = "stat_reset"]
    /\ UNCHANGED <<now, lanes, m_threads, polls, act, cx, stage>>

\* ---- scheduler_t ----------------------------------------------------------
\* add(thread): the registry afterwards and the result
scheduler_add(threads, l) ==
    LET free == {i \in DOMAIN threads : threads[i] = NoLane}
    IN  IF free = {} THEN [threads |-> threads, ret |-> FALSE]
        ELSE LET i == CHOOSE k \in free : \A j \in free : k <= j
             IN  [threads |-> [threads EXCEPT ![i] = l], ret |-> TRUE]

\* the loop without the early return: every registered lane is addressed
RECURSIVE scheduler_apply_all(_, _, _, _, _)
scheduler_apply_all(threads, lns, op, name, i) ==
    IF i >= RegCap THEN
        [lanes |-> lns, ret |-> FALSE, lane |-> NoLane, slot |-> NoSlot]
    ELSE IF threads[i] = NoLane THEN
        scheduler_apply_all(threads, lns, op, name, i + 1)
    ELSE
        LET l == threads[i]
            r == CASE op = "pkill" -> thread_pkill(lns[l], name)
                   [] op = "start" -> thread_start(lns[l], name)
                   [] op = "stop"  -> thread_stop(lns[l], name)
            rest == scheduler_apply_all(threads, [lns EXCEPT ![l] = r.lane],
                                        op, name, i + 1)
        IN  IF r.ret
            THEN [lanes |-> rest.lanes, ret |-> TRUE, lane |-> l, slot |-> r.slot]
            ELSE rest

\* the loop shared by pkill, start and stop: registry entries from i on
RECURSIVE scheduler_apply(_, _, _, _, _)
scheduler_apply(threads, lns, op, name, i) ==
    IF i >= RegCap THEN
        [lanes |-> lns, ret |-> FALSE, lane |-> NoLane, slot |-> NoSlot]
    ELSE IF threads[i] = NoLane THEN
        scheduler_apply(threads, lns, op, name, i + 1)
    ELSE
        LET l == threads[i]
            r == CASE op = "pkill" -> thread_pkill(lns[l], name)
                   [] op = "start" -> thread_start(lns[l], name)
                   [] op = "stop"  -> thread_stop(lns[l], name)
        IN  IF r.ret
            THEN [lanes |-> [lns EXCEPT ![l] = r.lane], ret |-> TRUE,
                  lane |-> l, slot |-> r.slot]
            ELSE scheduler_apply(threads, [lns EXCEPT ![l] = r.lane],
                                 op, name, i + 1)

scheduler_pkill(threads, lns, name) == scheduler_apply(threads, lns, "pkill", name, 0)
scheduler_start(threads, lns, name) == scheduler_apply(threads, lns, "start", name, 0)
scheduler_stop(threads, lns, name) == scheduler_apply(threads, lns, "stop", name, 0)

\* ---- actions: the scheduler ------------------------------------------------
\* the host registers each of its lanes at most once
SchedAddLane(l) ==
    /\ \A i \in DOMAIN m_threads : m_threads[i] # l
    /\ LET r == scheduler_add(m_threads, l)
       IN  /\ m_threads' = r.threads
           /\ last' = [NoOp EXCEPT !.op = "reg", !.lane = l, !.ret = r.ret]
    /\ UNCHANGED <<now, lanes, polls, act, cx, stage, stat>>

SchedControl(op, name) ==
    LET r == CASE op = "pkill" -> scheduler_pkill(m_threads, lanes, name)
               [] op = "start" -> scheduler_start(m_threads, lanes, name)
               [] op = "stop"  -> scheduler_stop(m_threads, lanes, name)
    IN  /\ lanes' = r.lanes
        /\ polls' = [l \in Lanes |-> Logged(polls[l], lanes[l], r.lanes[l], NoSlot)]
        /\ last' = [NoOp EXCEPT !.op = op, !.lane = r.lane, !.slot = r.slot,
                                !.ret = r.ret, !.name = name]
        /\ UNCHANGED <<now, m_threads, act, cx, stage, stat>>

SchedPkill(name) == SchedControl("pkill", name)
SchedStart(name) == SchedControl("start", name)
SchedStop(name) == SchedControl("stop", name)

\* ---- specifications --------------------------------------------------------
\* the clock and the thread<1> lane, driven directly by the host
TimingNames == {NameA}

Next ==
    \/ Tick
    \/ LaneRun(Solo)
    \/ \E name \in TimingNames, period \in Periods : LaneAdd(Solo, name, period)
    \/ \E name \in TimingNames : LanePkill(Solo, name)
    \/ \E name \in TimingNames : LaneStart(Solo, name)
    \/ \E name \in TimingNames : LaneStop(Solo, name)

Spec == Init /\ [][Next]_vars

\* dispatch on the thread<N> lane at a tick the host has reached: period 0 is
\* always ready, period 2 is ready until its first run at tick 2 and never at
\* tick 0
LanePeriods == {0, 2}
LaneTicks == {0, 2}

InitLane ==
    /\ now \in LaneTicks
    /\ lanes = [l \in Lanes |-> new_thread(Capacity(l))]
    /\ m_threads = [i \in 0..(RegCap - 1) |-> NoLane]
    /\ polls = [l \in Lanes |-> <<>>]
    /\ last = NoOp
    /\ act = NoCalls
    /\ cx = NoContext
    /\ stage = NoStage
    /\ stat = NoStat

NextLane ==
    \/ LaneRun(Multi)
    \/ \E period \in LanePeriods : LaneAdd(Multi, NameA, period)
    \/ LanePkill(Multi, NameA)

SpecLane == InitLane /\ [][NextLane]_vars

\* name-addressed control on the thread<N> lane
NextNames ==
    \/ LaneRun(Multi)
    \/ \E name \in Names : LaneAdd(Multi, name, 0)
    \/ \E name \in Names : LanePkill(Multi, name)
    \/ \E name \in Names : LaneStart(Multi, name)
    \/ \E name \in Names : LaneStop(Multi, name)

SpecNames == Init /\ [][NextNames]_vars

\* the registry: the host registers its lanes in any order, fills them and
\* addresses tasks by name through the scheduler
\* run(thread) and add(task, thread): the registry entry that the call
\* dereferences, "none" when it returns before
scheduler_entry(threads, i) ==
    IF i >= RegCap THEN "none" ELSE threads[i]

\* run(thread).  The call through an empty registry entry is a call through a
\* null pointer: the program faults, or returns with nothing done, or runs
\* whatever object the pointer happens to reach
SchedRun(i) ==
    LET e == scheduler_entry(m_threads, i)
    IN  /\ last.op # "fault"
        /\ \/ /\ e = "none"
              /\ last' = [NoOp EXCEPT !.op = "sched_run", !.from = i]
              /\ UNCHANGED <<lanes, polls>>
           \/ /\ e = NoLane
              /\ \E outcome \in {"fault", "sched_run"} :
                    last' = [NoOp EXCEPT !.op = outcome, !.from = i, !.deref = e]
              /\ UNCHANGED <<lanes, polls>>
           \/ /\ e # "none"
              /\ \E l \in (IF e = NoLane THEN Lanes ELSE {e}), keep \in BOOLEAN :
                    LET r == thread_run(lanes[l], now, keep)
                    IN  /\ lanes' = [lanes EXCEPT ![l] = r.lane]
                        /\ polls' = [polls EXCEPT ![l] =
                                        Logged(@, lanes[l], r.lane, r.slot)]
                        /\ last' = [NoOp EXCEPT !.op = "sched_run", !.from = i,
                                        !.deref = e, !.lane = l, !.slot = r.slot,
                                        !.ready = r.ready, !.executed = r.executed,
                                        !.keep = (r.executed # <<>> /\ keep),
                                        !.ranBefore = (r.slot # NoSlot /\
                                            lanes[l].tasks[r.slot].ran)]
        /\ UNCHANGED <<now, m_threads, act, cx, stage, stat>>

\* add(task, thread), with the same call through the registry entry
SchedAddTask(i, name, period) ==
    LET e == scheduler_entry(m_threads, i)
    IN  /\ last.op # "fault"
        /\ \/ /\ e = "none"
              /\ last' = [NoOp EXCEPT !.op = "sched_add", !.from = i, !.name = name]
              /\ UNCHANGED <<lanes, polls>>
           \/ /\ e = NoLane
              /\ \E outcome \in {"fault", "sched_add"}, ret \in BOOLEAN :
                    last' = [NoOp EXCEPT !.op = outcome, !.from = i, !.deref = e,
                                         !.name = name,
                                         !.ret = (outcome = "sched_add" /\ ret)]
              /\ UNCHANGED <<lanes, polls>>
           \/ /\ e # "none"
              /\ \E l \in (IF e = NoLane THEN Lanes ELSE {e}) :
                    LET r == thread_add(lanes[l], task_t(name, period))
                    IN  /\ lanes' = [lanes EXCEPT ![l] = r.lane]
                        /\ polls' = [polls EXCEPT ![l] =
                                        Logged(@, lanes[l], r.lane, NoSlot)]
                        /\ last' = [NoOp EXCEPT !.op = "sched_add", !.from = i,
                                        !.deref = e, !.lane = l, !.slot = r.slot,
                                        !.ret = r.ret, !.name = name]
        /\ UNCHANGED <<now, m_threads, act, cx, stage, stat>>

\* add(thread) while the program runs
RegAddLane(l) == last.op # "fault" /\ SchedAddLane(l)

\* the registry addressed by index: in range and registered, in range and
\* empty, the last entry, and out of range
RegIndices == {0, 1, 2, RegCap - 1, RegCap, 255}

NextReg ==
    \/ \E l \in Lanes : RegAddLane(l)
    \/ \E i \in RegIndices : SchedRun(i)
    \/ \E i \in RegIndices, name \in TimingNames : SchedAddTask(i, name, 0)

SpecReg == Init /\ [][NextReg]_vars

SchedNames == {NameA, NameX}

NextSched ==
    \/ \E l \in Lanes : SchedAddLane(l)
    \/ \E l \in Lanes, name \in SchedNames : LaneAdd(l, name, 0)
    \/ \E name \in SchedNames : SchedPkill(name)
    \/ \E name \in SchedNames : SchedStart(name)
    \/ \E name \in SchedNames : SchedStop(name)

SpecSched == Init /\ [][NextSched]_vars

\* one lane of one slot whose callbacks take time: the clock moves and run()
\* is called again while a callback executes
CallPeriods == {0 - 2, 0, 2}

NextCall ==
    \/ Tick
    \/ CallEnter(Solo)
    \/ CallLeave
    \/ \E name \in TimingNames, period \in CallPeriods : LaneAdd(Solo, name, period)
    \/ \E name \in TimingNames : LanePkill(Solo, name)
    \/ \E name \in TimingNames : LaneStart(Solo, name)
    \/ \E name \in TimingNames : LaneStop(Solo, name)

SpecCall == Init /\ [][NextCall]_vars

\* a stage_t<StageSteps> under a moving clock, for every array of steps
StageSteps == N + 1
SleepTicks == {0, 2}
Steps == {EmptyStep, UserStep} \cup {SleepStep(ticks) : ticks \in SleepTicks}

InitStage ==
    /\ now = 0
    /\ lanes = [l \in Lanes |-> new_thread(Capacity(l))]
    /\ m_threads = [i \in 0..(RegCap - 1) |-> NoLane]
    /\ polls = [l \in Lanes |-> <<>>]
    /\ last = NoOp
    /\ act = NoCalls
    /\ cx = NoContext
    /\ stage \in {new_stage(stages) : stages \in [0..(StageSteps - 1) -> Steps]}
    /\ stat = NoStat

NextStage ==
    \/ Tick
    \/ StageRun
    \/ \E ticks \in SleepTicks : StageSleep(ticks)

SpecStage == InitStage /\ [][NextStage]_vars

\* the lane "solo" with a lock, dispatched from one context and controlled
\* from another, at a fixed tick
NextConc ==
    \/ RunSize(Solo)
    \/ RunLocked(Solo)
    \/ RunWatchStop
    \/ \E name \in TimingNames, period \in LanePeriods : ConcAdd(Solo, name, period)
    \/ \E name \in TimingNames : ConcPkill(Solo, name)
    \/ \E name \in TimingNames : ConcStart(Solo, name)
    \/ \E name \in TimingNames : ConcStop(Solo, name)
    \/ ResetBegin
    \/ ResetEnd

SpecConc == InitLane /\ [][NextConc]_vars

\* a min_max_mean_t fed every sequence of samples of its type
NextStat ==
    \/ \E value \in 0..T_max : StatAdd(value)
    \/ StatReset

SpecStat == Init /\ [][NextStat]_vars

\* ---- properties -------------------------------------------------------------
Live(t) == t.status \notin {"stopped", "invalid"}

\* the task whose readiness the last run() evaluated
Polled == lanes[last.lane].tasks[last.slot]
RunPolled == last.op = "run" /\ last.slot # NoSlot

\* C1: a readiness check of a task with positive period P that has run and is
\* neither stopped nor invalid returns true exactly when now - last_run >= P,
\* so never at a tick with now - last_run < P.
C1_PositiveReadyIffElapsed ==
    [][(last'.op = "run" /\ last'.slot # NoSlot) =>
          LET t == lanes[last'.lane].tasks[last'.slot]
          IN  (t.period > 0 /\ t.ran /\ Live(t)) =>
                  (last'.ready <=> now - t.last_run >= t.period)]_vars

\* a task that had run before was found ready again, a full period later
C1_Witness ==
    /\ RunPolled /\ last.ready /\ last.ranBefore
    /\ Polled.period > 0

\* C2: for a task with negative period of magnitude P that has run and is
\* neither stopped nor invalid, every window of P ticks that follows a run
\* holds a readiness check that reports ready.  A ready check in run() runs
\* the task and moves last_run, so a check that is not ready at
\* now - last_run >= P closes a window in which no check was ready.
C2_NegativeReadyInEveryWindow ==
    (RunPolled /\ ~last.ready) =>
        ((Polled.period < 0 /\ Polled.ran /\ Live(Polled)) =>
            now - Polled.last_run < 0 - Polled.period)

\* C3: when a negative-period task is run, last_run becomes now minus the
\* time-left that the triggering readiness check computed, and so differs
\* from now whenever that time-left is not zero.
C3_NegativeRunBackdated ==
    (RunPolled /\ last.executed # <<>> /\ Polled.period < 0) =>
        /\ Polled.last_run = now - Polled.ticks_left
        /\ (Polled.ticks_left # 0 => Polled.last_run # now)

\* C6: while a task stays stopped no readiness check reports it ready, no
\* run() invokes its callback, whatever the clock, and its slot stays
\* occupied: counted by size(), untouched by add().
C6_StoppedNeverRuns ==
    [][\A l \in Lanes : \A s \in Slots(lanes[l]) :
          (lanes[l].tasks[s].status = "stopped") =>
              /\ s \in Populated(lanes[l])
              /\ (last'.op = "run" /\ last'.lane = l) =>
                     /\ ~(last'.slot = s /\ last'.ready)
                     /\ \A k \in 1..Len(last'.executed) : last'.executed[k] # s
              /\ (last'.op = "add" /\ last'.lane = l) => last'.slot # s
              /\ (lanes'[l].tasks[s].status = "stopped" =>
                     lanes'[l].tasks[s] = lanes[l].tasks[s])]_vars

\* a stopped task was polled at a tick at which its period had elapsed
C6_Witness ==
    /\ RunPolled /\ ~last.ready
    /\ Polled.status = "stopped" /\ Polled.period > 0
    /\ now - Polled.last_run >= Polled.period

\* ---- dispatch on one lane --------------------------------------------------
\* the newest m entries of a log
Newest(log, m) == SubSeq(log, Len(log) - m + 1, Len(log))
Distinct(sq) == \A a, b \in 1..Len(sq) : a # b => sq[a] # sq[b]
Range(sq) == {sq[a] : a \in 1..Len(sq)}
FreeSlots(ln) == Slots(ln) \ Populated(ln)
LowestFree(ln) == CHOOSE s \in FreeSlots(ln) : \A j \in FreeSlots(ln) : s <= j

\* C4: while the populated set of a lane stays the same, with k = size(), any
\* k consecutive run() calls evaluate the readiness of each populated slot
\* exactly once; a task that is always ready (period 0) is executed by the
\* run() that polls it, so a full lane of such tasks executes one task per
\* call and all N in N calls, none twice before the others.
C4_RoundRobin ==
    \A l \in Lanes :
        LET k    == size(lanes[l])
            m    == IF Len(polls[l]) < k THEN Len(polls[l]) ELSE k
            tail == Newest(polls[l], m)
        IN  /\ Distinct(tail)
            /\ Range(tail) \subseteq Populated(lanes[l])
            /\ (Len(polls[l]) >= k => Range(tail) = Populated(lanes[l]))
            /\ (RunPolled /\ last.lane = l /\ Polled.period = 0) =>
                   last.executed = <<last.slot>>

\* a full lane of always-ready tasks after N consecutive run() calls
C4_Witness ==
    /\ size(lanes[Multi]) = N
    /\ \A s \in Slots(lanes[Multi]) : lanes[Multi].tasks[s].period = 0
    /\ Len(polls[Multi]) = N
    /\ last.op = "run" /\ last.executed # <<>>

\* C5: one run() call invokes at most one callback, and none when the slot
\* under the cursor is not ready, whatever the other slots hold.
C5_AtMostOnePerRun ==
    last.op = "run" =>
        /\ Len(last.executed) <= 1
        /\ (last.slot = NoSlot \/ ~last.ready) => last.executed = <<>>
        /\ last.executed # <<>> => last.executed = <<last.slot>>

\* the polled task was not ready while another slot held a task that is
WouldBeReady(t) == Live(t) /\ t.period >= 0 /\ now - t.last_run >= t.period

C5_Witness ==
    /\ RunPolled /\ ~last.ready /\ last.executed = <<>>
    /\ \E s \in Slots(lanes[last.lane]) :
           s # last.slot /\ WouldBeReady(lanes[last.lane].tasks[s])

\* C7: a dispatched callback that returns false leaves its task invalid and
\* size() one smaller when run() returns, an invalid task's callback is not
\* invoked, and the add() that comes next succeeds into the lowest invalid
\* slot; a callback that returns true leaves the task paused.
C7_DropFreesSlot ==
    [][/\ (last'.op = "run" /\ last'.executed # <<>>) =>
            LET l == last'.lane
                s == last'.executed[1]
            IN  IF last'.keep
                THEN /\ lanes'[l].tasks[s].status = "paused"
                     /\ size(lanes'[l]) = size(lanes[l])
                ELSE /\ lanes'[l].tasks[s].status = "invalid"
                     /\ size(lanes'[l]) = size(lanes[l]) - 1
       /\ (last'.op = "run" /\ last'.lane \in Lanes) =>
            \A k \in 1..Len(last'.executed) :
                lanes[last'.lane].tasks[last'.executed[k]].status # "invalid"
       /\ (last.op = "run" /\ last.executed # <<>> /\ ~last.keep
              /\ last'.op = "add" /\ last'.lane = last.lane) =>
            /\ last'.ret
            /\ last'.slot = LowestFree(lanes[last.lane])
            /\ lanes'[last.lane].tasks[last'.slot].status = "running"
            /\ ~lanes'[last.lane].tasks[last'.slot].ran]_vars

\* a callback has just returned false
C7_Witness ==
    /\ last.op = "run" /\ last.executed # <<>> /\ ~last.keep
    /\ Polled.status = "invalid"

\* the stored name of a task constructed with a given name
Stored(name) ==
    [i \in 1..(NameLen + 1) |->
        IF i <= Len(name) /\ i <= NameLen THEN name[i] ELSE 0]

\* C8: add(task) writes the task into the lowest-index invalid slot, leaves
\* the other slots and the cursor as they were and returns true; with no
\* invalid slot it returns false and changes nothing; size() never exceeds N.
C8_AddLowestFree ==
    [][/\ (last'.op = "add") =>
            LET l == last'.lane
            IN  IF FreeSlots(lanes[l]) # {}
                THEN /\ last'.ret
                     /\ last'.slot = LowestFree(lanes[l])
                     /\ lanes'[l].tasks[last'.slot].status = "running"
                     /\ lanes'[l].tasks[last'.slot].name = Stored(last'.name)
                     /\ lanes'[l].tasks[last'.slot].last_run = 0
                     /\ \A s \in Slots(lanes[l]) \ {last'.slot} :
                            lanes'[l].tasks[s] = lanes[l].tasks[s]
                     /\ lanes'[l].index = lanes[l].index
                     /\ size(lanes'[l]) = size(lanes[l]) + 1
                ELSE /\ ~last'.ret
                     /\ last'.slot = NoSlot
                     /\ lanes' = lanes
       /\ \A l \in Lanes : size(lanes'[l]) <= Capacity(l)]_vars

\* add() has just failed on a full lane
C8_Witness ==
    /\ last.op = "add" /\ ~last.ret
    /\ size(lanes[Multi]) = N

\* ---- name-addressed control --------------------------------------------------
ControlOps == {"pkill", "start", "stop"}
Target(op) == CASE op = "pkill" -> "invalid"
                [] op = "start" -> "paused"
                [] op = "stop"  -> "stopped"

\* the first n characters of a name, and the characters a slot stores
Take(name, n) == SubSeq(name, 1, IF Len(name) < n THEN Len(name) ELSE n)
StoredString(stored) == SelectSeq(stored, LAMBDA c : c # 0)

\* the non-invalid slots whose name agrees with nm on the first 8 characters
Matches(ln, nm) ==
    {s \in Slots(ln) : ln.tasks[s].status # "invalid"
                        /\ StoredString(ln.tasks[s].name) = Take(nm, NameLen)}
Lowest(S) == CHOOSE s \in S : \A j \in S : s <= j

\* C9: pkill, start and stop of a lane compare at most the first 8 characters
\* and look at non-invalid slots only; with a match exactly the lowest
\* matching slot changes (to invalid, paused, stopped), every other slot
\* stays and the call returns true; without one it returns false and nothing
\* changes.  Names that agree on 8 characters address the same slot.
C9_ControlFirstMatch ==
    [][(last'.op \in ControlOps /\ last'.lane \in Lanes) =>
          LET l == last'.lane
              M == Matches(lanes[l], last'.name)
          IN  IF M # {}
              THEN /\ last'.ret
                   /\ last'.slot = Lowest(M)
                   /\ lanes'[l] = [lanes[l] EXCEPT
                          !.tasks[Lowest(M)].status = Target(last'.op)]
              ELSE /\ ~last'.ret
                   /\ lanes' = lanes]_vars

\* stop("abcdefghY") stopped slot 0 although slot 1 also holds a task stored
\* as "abcdefgh", which stays as it was
C9_Witness ==
    /\ last.op = "stop" /\ last.name = NameY /\ last.ret /\ last.slot = 0
    /\ lanes[Multi].tasks[0].status = "stopped"
    /\ lanes[Multi].tasks[1].name = Stored(NameX)
    /\ lanes[Multi].tasks[1].status \notin {"invalid", "stopped"}

\* C10: pkill, start and stop of the scheduler visit the registered lanes in
\* registry order and stop at the first lane with a match: one task, in the
\* lowest-index registered lane that holds a match, changes, every other
\* task stays, and the result is true exactly when a registered lane holds a
\* match.
C10_SchedulerFirstLane ==
    [][(last'.op \in ControlOps) =>
          LET nm   == last'.name
              hits == {i \in DOMAIN m_threads :
                          /\ m_threads[i] # NoLane
                          /\ Matches(lanes[m_threads[i]], nm) # {}}
          IN  IF hits # {}
              THEN LET l == m_threads[Lowest(hits)]
                       s == Lowest(Matches(lanes[l], nm))
                   IN  /\ last'.ret
                       /\ last'.lane = l
                       /\ last'.slot = s
                       /\ lanes' = [lanes EXCEPT
                              ![l].tasks[s].status = Target(last'.op)]
              ELSE /\ ~last'.ret
                   /\ lanes' = lanes]_vars

\* the thread<N> lane was registered first and took the stop; the matching
\* task of the lane registered second was left alone
C10_Witness ==
    /\ m_threads[0] = Multi /\ m_threads[1] = Solo
    /\ last.op = "stop" /\ last.ret /\ last.lane = Multi
    /\ Matches(lanes[Solo], last.name) # {}
    /\ lanes[Solo].tasks[0].status # "stopped"

\* ---- the task state machine --------------------------------------------------
\* C13: a task constructed with (name, period, callback) is stored as paused
\* right after construction and after add(), and status() reports paused
\* before its first readiness check.
C13_ConstructedPaused ==
    (last.op = "add" /\ last.ret) =>
        /\ \A period \in Periods : task_t(last.name, period).status = "paused"
        /\ lanes[last.lane].tasks[last.slot].status = "paused"
        /\ status(lanes[last.lane].tasks[last.slot]) = "paused"

\* C16: a readiness check of a negative-period task of magnitude P that is
\* neither stopped nor invalid stores now mod P as the phase sample whether
\* or not it detects a boundary; it reports ready exactly when that phase is
\* strictly smaller than the sample stored before, and otherwise caches the
\* time-left P - phase, which is at least 1.
C16_PhaseWraparound ==
    [][(last'.op = "run" /\ last'.slot # NoSlot) =>
          LET t     == lanes[last'.lane].tasks[last'.slot]
              t2    == lanes'[last'.lane].tasks[last'.slot]
              P     == 0 - t.period
              phase == now % P
          IN  (t.period < 0 /\ Live(t)) =>
                  /\ t2.prev = phase
                  /\ last'.ready <=> phase < t.prev
                  /\ ~last'.ready =>
                        (t2.ticks_left = P - phase /\ t2.ticks_left >= 1)]_vars

\* a boundary was detected: the phase fell below the stored sample
C16_Witness ==
    /\ RunPolled /\ last.ready
    /\ Polled.period < 0 /\ Polled.prev = now % (0 - Polled.period)

\* C17: the stored status of every slot is invalid, running, stopped or
\* paused, never delayed; status() reports delayed only for a task that is
\* stored as paused, has a non-zero period and whose own most recent
\* readiness check cached a negative time-left.
C17_DelayedOnlyDerived ==
    \A l \in Lanes : \A s \in Slots(lanes[l]) :
        LET t == lanes[l].tasks[s]
        IN  /\ t.status \in {"invalid", "running", "stopped", "paused"}
            /\ status(t) # "delayed" => status(t) = t.status
            /\ status(t) = "delayed" =>
                   /\ t.status = "paused"
                   /\ t.period # 0
                   /\ t.checked /\ t.ticks_left < 0

\* C18: after add(task) the whole scheduling state of the slot is that of
\* the task given, cached time-left and phase sample included, so nothing of
\* the previous occupant is left.
C18_AddCopiesWholeState ==
    (last.op = "add" /\ last.ret) =>
        \E period \in Periods :
            lanes[last.lane].tasks[last.slot] = task_t(last.name, period)


    /\ now \in 0..MaxTick
    /\ \A l \in Lanes : lanes[l].index \in Slots(lanes[l])

\* ---- callbacks that take time --------------------------------------------------
\* C12: no callback is invoked for a task whose previous invocation has not
\* returned, that is, one that has been run and whose stored status is still
\* running, whatever its period, also when run() is called again on the lane
\* while the callback executes.
C12_NoReentry ==
    [][(last'.op = "run" /\ last'.executed # <<>>) =>
          LET t == lanes[last'.lane].tasks[last'.slot]
          IN  ~(t.ran /\ t.status = "running" /\
                [lane |-> last'.lane, slot |-> last'.slot] \in Range(act.stack))]_vars

\* C15 as stated: a positive-period task whose callback has returned is not
\* ready at any tick earlier than the tick of that return plus its period.
C15_DeadlineAfterCompletion ==
    (RunPolled /\ last.ready /\ last.ranBefore /\ Polled.period > 0
        /\ Len(act.stack) = 1 /\ act.done # NoTick) =>
            now - act.done >= Polled.period

\* C15 amended: the deadline of a positive-period task counts from the tick at
\* which its callback was last called, whatever time the callback took; a
\* readiness check of a task that is neither stopped nor invalid reports ready
\* exactly when that tick lies at least a period back.
C15_DeadlineAfterStart ==
    [][(last'.op = "run" /\ last'.slot # NoSlot) =>
          LET t == lanes[last'.lane].tasks[last'.slot]
          IN  (t.period > 0 /\ t.ran /\ Live(t)) =>
                  (last'.ready <=> now - act.begun >= t.period)]_vars

\* a task was found ready less than a period after its callback had returned
C15_Witness ==
    /\ RunPolled /\ last.ready /\ last.ranBefore
    /\ Polled.period > 0
    /\ Len(act.stack) = 1 /\ act.done # NoTick
    /\ now - act.done < Polled.period
    /\ act.done > Polled.last_run - Polled.period

\* ---- the stage machine -----------------------------------------------------------
\* the index that a direction leads to from step i
Follow(i, dir, n) ==
    CASE dir = "next"  -> (i + 1) % n
      [] dir = "stay"  -> i
      [] dir = "reset" -> 0

\* C19 as stated: run() calls the step at the active index, then moves the
\* index as the returned direction says, and the index stays in 0..N-1.
C19_RunCallsActiveStep ==
    [][(last'.op = "stage_run") =>
          /\ last'.slot = stage.m_index
          /\ last'.dir \in Directions
          /\ stage'.m_index = Follow(stage.m_index, last'.dir, StageN(stage))
          /\ stage'.m_index \in 0..(StageN(stage) - 1)]_vars

\* C19 amended: run() calls the step at the active index when that step is
\* set, and step 0 when it is empty; the index then moves from the step that
\* was called as the returned direction says.  When step 0 is the step to call
\* and is empty, no step is called, the call fails and the index is 0.  The
\* index stays in 0..N-1.
C19_RunCallsActiveOrFirst ==
    [][(last'.op = "stage_run") =>
          LET i == IF stage.m_stages[stage.m_index] = EmptyStep THEN 0
                   ELSE stage.m_index
          IN  /\ stage.m_stages[i] # EmptyStep =>
                    /\ last'.slot = i /\ last'.ret
                    /\ last'.dir \in Directions
                    /\ stage'.m_index = Follow(i, last'.dir, StageN(stage))
              /\ stage.m_stages[i] = EmptyStep =>
                    /\ last'.slot = NoSlot /\ ~last'.ret
                    /\ stage'.m_index = 0
              /\ stage'.m_index \in 0..(StageN(stage) - 1)]_vars

\* run() found an empty step under the index, called step 0 instead, and the
\* step returned reset
C19_Witness ==
    /\ last.op = "stage_run" /\ last.from # 0
    /\ stage.m_stages[last.from] = EmptyStep
    /\ last.slot = 0 /\ last.dir = "reset" /\ stage.m_index = 0

\* the last step of the model called sleep()
SleepCalled ==
    \/ last.op = "sleep"
    \/ last.op = "stage_run" /\ last.slot # NoSlot
           /\ stage.m_stages[last.slot].kind = "sleep"

\* C20: a sleep(ticks) call made while not armed arms the deadline
\* now + ticks; a call at a tick before the deadline in force returns stay and
\* keeps deadline and armed state; a call at a tick at or after it returns next
\* and disarms; so sleep(0) called while not armed returns next.
C20_SleepDeadline ==
    [][SleepCalled' =>
          LET dl == IF stage.m_is_sleeping THEN stage.m_deadline
                    ELSE now + last'.ticks
          IN  /\ now < dl => /\ last'.dir = "stay"
                             /\ stage'.m_is_sleeping
                             /\ stage'.m_deadline = dl
              /\ now >= dl => /\ last'.dir = "next"
                              /\ ~stage'.m_is_sleeping
              /\ (~stage.m_is_sleeping /\ last'.ticks = 0) => last'.dir = "next"
              /\ stage'.m_index \in 0..(StageN(stage) - 1)]_vars

\* a sleep armed at an earlier tick returned next at its deadline
C20_Witness ==
    /\ SleepCalled /\ last.dir = "next" /\ last.ticks > 0
    /\ ~stage.m_is_sleeping /\ stage.m_deadline = now

\* ---- two contexts and the lock ---------------------------------------------------
\* C11: a run() that has passed its emptiness check behaves as one section
\* with its slot scan: no control call has emptied the lane in between, the
\* scan does not stay in the skip loop, and the lock is released after it.
C11_RunIsOneSection ==
    [][(cx.pc = "sized" /\ cx'.pc # "sized") =>
          /\ size(lanes[last'.lane]) > 0
          /\ cx'.pc # "spin"
          /\ cx'.holder # "A"]_vars

\* C14: no lane operation touches lane state (slots, cursor, stopwatch)
\* without holding the lock, and none has returned with the lock held.
C14_CriticalSections ==
    /\ ~cx.bare
    /\ cx.pc = "idle" => cx.holder # "A"

\* ---- the baseline of a new task --------------------------------------------------
\* C24: a task stored by add() has last_run 0 whatever the tick of the add.
\* While it has not run and is neither stopped nor invalid, a task with
\* positive period P is found ready, and executed, by exactly the run() calls
\* at ticks >= P: right after an add at a tick >= P it is ready at once.  A
\* task with period 0 that is neither stopped nor invalid is ready at every
\* run() that polls it.
C24_BaselineZero ==
    [][/\ (last'.op = "add" /\ last'.ret) =>
             LET t == lanes'[last'.lane].tasks[last'.slot]
             IN  /\ t.last_run = 0
                 /\ t.period > 0 => (is_ready(t, now').ready <=> now' >= t.period)
                 /\ t.period = 0 => is_ready(t, now').ready
       /\ (last'.op = "run" /\ last'.slot # NoSlot) =>
             LET t == lanes[last'.lane].tasks[last'.slot]
             IN  /\ (t.period > 0 /\ ~t.ran /\ Live(t)) =>
                        /\ last'.ready <=> now >= t.period
                        /\ last'.executed # <<>> <=> now >= t.period
                 /\ (t.period = 0 /\ Live(t)) =>
                        (last'.ready /\ last'.executed # <<>>)]_vars

\* a task with positive period was added at a tick past its period and is
\* ready without waiting
C24_Witness ==
    /\ last.op = "add" /\ last.ret
    /\ lanes[last.lane].tasks[last.slot].period > 0
    /\ now >= lanes[last.lane].tasks[last.slot].period
    /\ is_ready(lanes[last.lane].tasks[last.slot], now).ready

\* ---- control calls against the dispatcher ----------------------------------------
\* C22: the dispatcher does not undo a pkill or stop that returned true: the
\* step of run() that follows it, be it a new run() or the return of a
\* callback that was executing, leaves the matched task invalid (resp.
\* stopped) and does not invoke its callback.
C22_ControlNotUndone ==
    [][(last.op \in {"pkill", "stop"} /\ last.ret /\ last'.op \in {"run", "return"}) =>
          LET t2 == lanes'[last.lane].tasks[last.slot]
          IN  /\ last.op = "pkill" => t2.status = "invalid"
              /\ last.op = "stop" => t2.status = "stopped"
              /\ (last'.op = "run" /\ last'.lane = last.lane) =>
                     \A k \in 1..Len(last'.executed) : last'.executed[k] # last.slot]_vars

\* ---- the registry addressed by index ---------------------------------------------
\* whether index i addresses a registered lane
Registered(i) == i < RegCap /\ m_threads[i] # NoLane

\* C23: run(i) and add(task, i) with an index that addresses no registered
\* lane, out of range or in range with an empty entry, return without
\* dereferencing a registry entry, change neither a lane nor the registry, and
\* add returns false.
C23_UnregisteredIgnored ==
    [][(last'.op \in {"sched_run", "sched_add", "fault"} /\ ~Registered(last'.from)) =>
          /\ last'.deref = "none"
          /\ last'.op # "fault"
          /\ ~last'.ret
          /\ lanes' = lanes
          /\ m_threads' = m_threads]_vars

\* ---- the rolling statistic ---------------------------------------------------------
\* the sum of the ring entries from entry k on, as a number
RECURSIVE RingSum(_, _)
RingSum(values, k) ==
    IF k >= Cardinality(DOMAIN values) THEN 0
    ELSE values[k] + RingSum(values, k + 1)

NonDecreasing(sq) == \A a, b \in 1..Len(sq) : a <= b => sq[a] <= sq[b]

\* C21: after an add(), the mean is the integer mean of the ring entries, min
\* and max are the smallest and largest sample added since the reset,
\* min <= mean <= max; after the first add since a reset the ring holds that
\* sample in every entry and min = max = mean = the sample; while the samples
\* have come in non-decreasing order min is the first and max the latest.
C21_MinMaxMean ==
    [][(last'.op = "stat_add") =>
          LET o  == stat'.obj
              sq == stat'.samples
          IN  /\ o.m_mean = RingSum(o.m_values, 0) \div Cardinality(DOMAIN o.m_values)
              /\ o.m_min \in Range(sq) /\ \A a \in 1..Len(sq) : o.m_min <= sq[a]
              /\ o.m_max \in Range(sq) /\ \A a \in 1..Len(sq) : o.m_max >= sq[a]
              /\ o.m_min <= o.m_mean /\ o.m_mean <= o.m_max
              /\ Len(sq) = 1 =>
                    /\ \A k \in DOMAIN o.m_values : o.m_values[k] = sq[1]
                    /\ o.m_min = sq[1] /\ o.m_max = sq[1] /\ o.m_mean = sq[1]
              /\ NonDecreasing(sq) =>
                    (o.m_min = sq[1] /\ o.m_max = sq[Len(sq)])]_vars

==============================================================================
